---- MODULE Spec2Model ----
(***************************************************************************)
(* Model of five-bells-sender: one payment run (sendPayment or             *)
(* executePayment), from the quoted hops to the notary fulfillment.        *)
(* Every awaited call is one action; the synchronous code between two      *)
(* awaits belongs to the action that precedes or follows it.               *)
(*                                                                         *)
(* Optional JavaScript properties are sequences of length 0 (absent) or 1  *)
(* (present).  URIs are tuples of their parts.                             *)
(***************************************************************************)
EXTENDS Integers, Sequences, FiniteSets, TLC

\* ---------------------------------------------------------------- bounds
\* largest number of quoted hops in a run
MaxHops == 2
\* number of milliseconds the clock may advance during a run
MaxClock == 1
\* largest expiry_duration (seconds) a quoted transfer declares
MaxDuration == 2

\* --------------------------------------------------- program constants
\* a response with a status of at least 400 is an error
ErrorStatus == 400
\* expiry_duration is in seconds, Date.now() in milliseconds
MsPerSecond == 1000

\* ---------------------------------------------------------------- state
VARIABLES
  entry,            \* the entry point the caller used
  params,           \* the caller's params object
  quote,            \* the quoted path: the caller's, or what findPath returns
  payments,         \* subpayments
  transfers,        \* the chain of transfers
  pc,               \* where the run is
  idx,              \* the loop index of postTransfers and postPayments
  clock,            \* Date.now()
  now,              \* the constant now of executePayment
  receiptCondition, \* the constant receiptCondition of executePayment
  caseID,           \* the constant caseID of executePayment
  stateBody,        \* the constant state of postFulfillmentToNotary
  requests,         \* every request issued so far, with the status it got
  outcome,          \* the promise the caller holds
  proposed,         \* ids of the transfers registered at their ledgers
  settled           \* ids of the payments that were settled

vars == <<entry, params, quote, payments, transfers, pc, idx, clock, now,
          receiptCondition, caseID, stateBody, requests, outcome, proposed,
          settled>>

\* ------------------------------------------------------------- helpers
Absent == <<>>
Some(v) == <<v>>
Has(o) == o # <<>>
Val(o) == o[1]

\* the responses a ledger or a notary answers with
Responses ==
  {[status |-> 200, body |-> "ok"],
   [status |-> 400, body |-> "bad request"],
   [status |-> 402, body |-> "insufficient funds"]}

\* Date.prototype.toISOString for instants in the first minute of the
\* epoch: the fields of "1970-01-01T00:00:SS.mmmZ"
toISOString(ms) == <<1970, 1, 1, 0, 0, (ms \div 1000) % 60, ms % 1000>>

\* encodeURIComponent over strings given as sequences of characters: a
\* reserved character is escaped, every other character is kept
encodeURIComponent(s) ==
  [i \in DOMAIN s |-> IF s[i] = " " THEN "%20"
                      ELSE IF s[i] = "/" THEN "%2F"
                      ELSE s[i]]

\* the n-th token uuid() returns: tokens are fresh, and made of unreserved
\* characters only
uuid(n) == <<"u", ToString(n)>>

ledgerToAccount(ledger, username) ==
  <<ledger, "accounts", encodeURIComponent(username)>>

\* params with sourceAccount and destinationAccount filled in
setupAccountParams(p) ==
  [p EXCEPT
     !.sourceAccount =
        IF Has(p.sourceAccount) THEN p.sourceAccount
        ELSE Some(ledgerToAccount(p.sourceLedger, p.sourceUsername)),
     !.destinationAccount =
        IF Has(p.destinationAccount) THEN p.destinationAccount
        ELSE Some(ledgerToAccount(p.destinationLedger, p.destinationUsername))]

\* ------------------------------------------------------- quoted input
Ledger(i) == <<"http://ledger", i>>
Connector(i) == <<"http://connector", i>>
\* the account of connector c at ledger l
ConnectorAccount(l, c) == <<Ledger(l), "accounts", <<"c", ToString(c)>>>>

Debit(account, authorized) ==
  [account |-> account, amount |-> "10", authorized |-> authorized]
Credit(account) ==
  [account |-> account, amount |-> "10", memo |-> Absent]

\* a transfer as a quote carries it: ledger, debits, credits and
\* expiry_duration; expires_at only when the caller's quote has one.  A
\* transfer without debits (or credits) has the empty list: its debits[0]
\* is undefined either way
QuotedTransfer(ledger, debits, credits, duration, expires) ==
  [id |-> Absent, ledger |-> ledger, debits |-> debits, credits |-> credits,
   expiry_duration |-> Some(duration), expires_at |-> expires,
   execution_condition |-> Absent, cancellation_condition |-> Absent,
   additional_info |-> Absent, state |-> Absent]

\* the expires_at a quoted transfer arrives with
QuotedExpiry == toISOString(5000)

\* hop i of n: its source transfer is on ledger i and pays connector i,
\* its destination transfer is on ledger i+1 and is paid by connector i.
\* dur[j] is the expiry_duration of chain transfer j, pre is the chain
\* transfer quoted with an expires_at (0: none; 1: the first; n + 1: the last).
\* defect is the field the quote lacks: the ledger or the debits of the first
\* source transfer, or the credits of the last destination transfer
QuotedHop(i, n, dur, pre, destAccount, defect) ==
  [id |-> <<Connector(i), "payments", <<"p", ToString(i)>>>>,
   source_transfers |-> <<QuotedTransfer(
       IF i = 1 /\ defect = "ledger" THEN Absent ELSE Some(Ledger(i)),
       IF i = 1 /\ defect = "debits" THEN <<>>
       ELSE IF i = 1
         THEN <<Debit(Absent, Absent), Debit(Some(ConnectorAccount(1, 0)), Some(FALSE))>>
         ELSE <<Debit(Absent, Absent)>>,
       <<Credit(Some(ConnectorAccount(i, i)))>>,
       dur[i],
       IF pre = i THEN Some(QuotedExpiry) ELSE Absent)>>,
   destination_transfers |-> <<QuotedTransfer(
       Some(Ledger(i + 1)),
       <<Debit(Some(ConnectorAccount(i + 1, i)), Some(FALSE))>>,
       IF i = n /\ defect = "credits" THEN <<>>
       ELSE <<Credit(IF i = n THEN destAccount
                     ELSE Some(ConnectorAccount(i + 1, i + 1)))>>,
       IF i = n THEN dur[n + 1] ELSE 1,
       IF i = n /\ pre = n + 1 THEN Some(QuotedExpiry) ELSE Absent)>>]

\* the expiry durations of a chain of m transfers: a connector quotes a hop
\* whose source transfer expires no earlier than its destination transfer
Durations(m) ==
  {dur \in [1..m -> 1..MaxDuration] :
     \A j \in 1..(m - 1) : dur[j] >= dur[j + 1]}

\* the quotes with every field a hop needs
WellFormedQuotes ==
  UNION {
    { [i \in 1..n |-> QuotedHop(i, n, dur, pre, Some(<<Ledger(n + 1), "accounts", <<"b","o","b">>>>), "none")] :
        dur \in Durations(n + 1), pre \in {0, 1, n + 1} } :
    n \in 1..MaxHops }

\* the quotes that lack a field
MalformedQuotes ==
  { [i \in 1..n |-> QuotedHop(i, n, [j \in 1..(n + 1) |-> 1], 0, Some(<<Ledger(n + 1), "accounts", <<"b","o","b">>>>), defect)] :
      n \in 1..MaxHops, defect \in {"ledger", "debits", "credits"} }

Quotes == WellFormedQuotes \cup MalformedQuotes

\* ------------------------------------------------------ Chain Builder
\* what string concatenation makes of a property: its value, or "undefined"
\* when the object has no such property
concat(property) == IF Has(property) THEN Val(property) ELSE <<"undefined">>

\* mapTransfer with the quoted debits of every hop kept
mapTransferKeepsDebits(ps, i, sourceAccount, c) ==
  LET payment == ps[i]
      transfer == payment.source_transfers[1]
      tagged == [transfer EXCEPT
                   !.id = Some(<<concat(transfer.ledger), "transfers",
                                 encodeURIComponent(uuid(c + i))>>),
                   !.additional_info =
                      Some([part_of_payment |-> payment.id, cases |-> Absent])]
  IN IF i = 1
       THEN [tagged EXCEPT !.debits[1].account = sourceAccount]
       ELSE tagged

\* the transfer built from payments[i]; c tokens were drawn before the run
mapTransfer(ps, i, sourceAccount, c) ==
  LET payment == ps[i]
      transfer == payment.source_transfers[1]
      tagged == [transfer EXCEPT
                   !.id = Some(<<concat(transfer.ledger), "transfers",
                                 encodeURIComponent(uuid(c + i))>>),
                   !.additional_info =
                      Some([part_of_payment |-> payment.id, cases |-> Absent])]
  IN IF i = 1
       THEN [tagged EXCEPT !.debits[1].account = sourceAccount]
       ELSE [tagged EXCEPT
               !.debits = ps[i - 1].destination_transfers[1].debits]

\* paymentsToTransfers with the final transfer tagged with the first payment
paymentsToTransfersFirstTag(ps, sourceAccount, c) ==
  LET n == Len(ps)
      finalPayment == ps[n]
      quoted == finalPayment.destination_transfers[1]
      finalTransfer ==
        [quoted EXCEPT
           !.id = Some(<<concat(quoted.ledger), "transfers",
                         encodeURIComponent(uuid(c + n + 1))>>),
           !.additional_info =
              Some([part_of_payment |-> ps[1].id, cases |-> Absent])]
  IN Append([i \in 1..n |-> mapTransfer(ps, i, sourceAccount, c)],
            finalTransfer)

paymentsToTransfers(ps, sourceAccount, c) ==
  LET n == Len(ps)
      finalPayment == ps[n]
      quoted == finalPayment.destination_transfers[1]
      finalTransfer ==
        [quoted EXCEPT
           !.id = Some(<<concat(quoted.ledger), "transfers",
                         encodeURIComponent(uuid(c + n + 1))>>),
           !.additional_info =
              Some([part_of_payment |-> finalPayment.id, cases |-> Absent])]
  IN Append([i \in 1..n |-> mapTransfer(ps, i, sourceAccount, c)],
            finalTransfer)

\* transfers[i] is the object payments[i].source_transfers[0], and the last
\* transfer is the object payments[n].destination_transfers[0]: what is
\* written to a transfer of the chain is written to the payment
aliased(ps, ts) ==
  LET n == Len(ps)
  IN [i \in 1..n |->
        [ps[i] EXCEPT
           !.source_transfers = <<ts[i]>>,
           !.destination_transfers =
              IF i = n THEN <<ts[n + 1]>> ELSE @]]

\* ------------------------------------------------- Escrow Configurator
\* transferExpiresAt with the clock read again for every transfer
transferExpiresAtRereads(base, transfer) ==
  toISOString(clock + Val(transfer.expiry_duration) * MsPerSecond)

transferExpiresAt(base, transfer) ==
  toISOString(base + Val(transfer.expiry_duration) * MsPerSecond)

\* setupTransfer with the case reference of an atomic transfer left out
setupTransferNoCase(transfer, isFinal, p) ==
  LET conditioned ==
        IF p.isAtomic
          THEN [transfer EXCEPT
                  !.execution_condition = Some(p.executionCondition),
                  !.cancellation_condition = Some(p.cancellationCondition)]
          ELSE [transfer EXCEPT
                  !.expires_at = Some(transferExpiresAt(p.now, transfer)),
                  !.execution_condition =
                     IF ~isFinal THEN Some(p.executionCondition) ELSE @]
  IN [conditioned EXCEPT !.expiry_duration = Absent]

\* setupTransfer with the execution condition put on the final transfer too
setupTransferConditionsAll(transfer, isFinal, p) ==
  LET conditioned ==
        IF p.isAtomic
          THEN [transfer EXCEPT
                  !.execution_condition = Some(p.executionCondition),
                  !.cancellation_condition = Some(p.cancellationCondition),
                  !.additional_info[1].cases = Some(<<p.caseID>>)]
          ELSE [transfer EXCEPT
                  !.expires_at = Some(transferExpiresAt(p.now, transfer)),
                  !.execution_condition = Some(p.executionCondition)]
  IN [conditioned EXCEPT !.expiry_duration = Absent]

\* the body of the loop of setupTransfers for one transfer
setupTransfer(transfer, isFinal, p) ==
  LET conditioned ==
        IF p.isAtomic
          THEN [transfer EXCEPT
                  !.execution_condition = Some(p.executionCondition),
                  !.cancellation_condition = Some(p.cancellationCondition),
                  !.additional_info[1].cases = Some(<<p.caseID>>)]
          ELSE [transfer EXCEPT
                  !.expires_at = Some(transferExpiresAt(p.now, transfer)),
                  !.execution_condition =
                     IF ~isFinal THEN Some(p.executionCondition) ELSE @]
  IN [conditioned EXCEPT !.expiry_duration = Absent]

\* authorizeFirst with every debit of the first transfer authorized
authorizeFirstAllDebits(ts) ==
  [ts EXCEPT
     ![1].debits = [j \in DOMAIN @ |-> [@[j] EXCEPT !.authorized = Some(TRUE)]]]

authorizeFirst(ts) ==
  [ts EXCEPT ![1].debits[1].authorized = Some(TRUE)]

setupTransfers(ts, p) ==
  authorizeFirst([i \in DOMAIN ts |->
                    setupTransfer(ts[i], i = Len(ts), p)])

\* ---------------------------------------------------- Condition Provider
getReceiptCondition(transfer, state) ==
  [type |-> "receipt", transfer |-> transfer.id, state |-> state]

getExecutionCondition(p) ==
  [type |-> "execution", params |-> p]

getCancellationCondition(p) ==
  [type |-> "cancellation", params |-> p]

Alice == <<"a", "l", "/", "c", "e">>
Bob == <<"b", "o", "b">>
Notary == <<"http://notary">>

Params(q, notary, key, rc, memo, account) ==
  [sourceLedger |-> Ledger(1),
   sourceAccount |-> account,
   sourceUsername |-> Alice,
   sourcePassword |-> "secret",
   destinationLedger |-> Ledger(Len(q) + 1),
   destinationAccount |-> Absent,
   destinationUsername |-> Bob,
   destinationAmount |-> "10",
   destinationMemo |-> memo,
   notary |-> notary,
   notaryPublicKey |-> key,
   receiptCondition |-> rc]

\* non-atomic, atomic, and atomic without the notary's public key
Modes ==
  {[notary |-> Absent, notaryPublicKey |-> Absent],
   [notary |-> Some(Notary), notaryPublicKey |-> Some("key")],
   [notary |-> Some(Notary), notaryPublicKey |-> Absent]}

Pending == [state |-> "pending", value |-> Absent, error |-> Absent]
Resolved(v) == [state |-> "resolved", value |-> v, error |-> Absent]
Rejected(e) == [state |-> "rejected", value |-> Absent, error |-> Some(e)]

Init ==
  /\ entry \in {"sendPayment", "executePayment"}
  /\ quote \in Quotes
  /\ \E mode \in Modes,
        rc \in {Absent, Some([type |-> "caller"])},
        memo \in {Absent, Some("memo")} :
        params = Params(quote, mode.notary, mode.notaryPublicKey, rc, memo,
                        Absent)
  /\ payments = <<>>
  /\ transfers = <<>>
  /\ pc = "start"
  /\ idx = 0
  /\ clock = 999
  /\ now = Absent
  /\ receiptCondition = Absent
  /\ caseID = Absent
  /\ stateBody = Absent
  /\ requests = <<>>
  /\ outcome = Pending
  /\ proposed = {}
  /\ settled = {}

isAtomic == Has(params.notary)

\* RemoteError with the body of the response left out of the message
RemoteErrorNoBody(prefix, status, body) ==
  [message |-> <<prefix, status>>]

\* the Error a response with a status of at least 400 is turned into
RemoteError(prefix, status, body) ==
  [message |-> <<prefix, status, body>>]

\* the run stops: the promise of the entry point is rejected with e
Throw(e) ==
  /\ pc' = "failed"
  /\ outcome' = Rejected(e)

Request(kind, url, auth, body, res) ==
  [kind |-> kind, url |-> url, auth |-> auth, body |-> body,
   status |-> res.status, response |-> res.body]

\* a millisecond passes
Tick ==
  /\ pc \notin {"done", "failed"}
  /\ clock < 999 + MaxClock
  /\ clock' = clock + 1
  /\ UNCHANGED <<entry, params, quote, payments, transfers, pc, idx, now,
                 receiptCondition, caseID, stateBody, requests, outcome,
                 proposed, settled>>

\* sendPayment, up to the call of findPath
SendPayment ==
  /\ pc = "start"
  /\ entry = "sendPayment"
  /\ params' = setupAccountParams(params)
  /\ pc' = "findPath"
  /\ UNCHANGED <<entry, quote, payments, transfers, idx, clock, now,
                 receiptCondition, caseID, stateBody, requests, outcome,
                 proposed, settled>>

\* findPath: the pathfinder crawls the ledgers and returns the quoted hops,
\* or throws
FindPath ==
  /\ pc = "findPath"
  /\ \E ok \in BOOLEAN :
       /\ requests' = Append(requests,
             Request("findPath",
                     <<params.sourceLedger, params.destinationLedger>>,
                     Absent, Absent, [status |-> IF ok THEN 200 ELSE 500, body |-> "paths"]))
       /\ IF ok
            THEN /\ payments' = quote
                 /\ pc' = "executePayment"
                 /\ UNCHANGED outcome
            ELSE /\ Throw([message |-> <<"Pathfinder error">>])
                 /\ UNCHANGED payments
  /\ UNCHANGED <<entry, params, quote, transfers, idx, clock, now,
                 receiptCondition, caseID, stateBody, proposed, settled>>

\* the caller calls executePayment with its own quoted hops
CallExecutePayment ==
  /\ pc = "start"
  /\ entry = "executePayment"
  /\ payments' = quote
  /\ pc' = "executePayment"
  /\ UNCHANGED <<entry, params, quote, transfers, idx, clock, now,
                 receiptCondition, caseID, stateBody, requests, outcome,
                 proposed, settled>>

\* transfer.debits[0].account = sourceAccount throws a TypeError when the
\* first source transfer has no debits[0]
buildThrows(ps) == Len(ps[1].source_transfers[1].debits) = 0

\* credits[0].memo = params.destinationMemo throws a TypeError when the
\* final transfer has no credits[0]
memoThrows(ps, p) ==
  /\ Has(p.destinationMemo)
  /\ Len(ps[Len(ps)].destination_transfers[1].credits) = 0

\* the payments as the TypeError of paymentsToTransfers leaves them: the
\* first source transfer has its id and its additional_info
halfBuilt(ps) ==
  LET transfer == ps[1].source_transfers[1]
  IN [ps EXCEPT ![1].source_transfers[1] =
        [transfer EXCEPT
           !.id = Some(<<concat(transfer.ledger), "transfers",
                         encodeURIComponent(uuid(1))>>),
           !.additional_info =
              Some([part_of_payment |-> ps[1].id, cases |-> Absent])]]

TypeError(what) == [message |-> <<"TypeError", what>>]

\* the chain of executePayment: paymentsToTransfers, then the memo
buildChain(ps, p) ==
  LET ts == paymentsToTransfers(ps, Val(p.sourceAccount), 0)
  IN IF Has(p.destinationMemo)
       THEN [ts EXCEPT ![Len(ts)].credits[1].memo = p.destinationMemo]
       ELSE ts

\* executePayment up to the chain: the parameters are checked, the chain is
\* built
ExecutePayment ==
  /\ pc = "executePayment"
  /\ LET p == setupAccountParams(params) IN
       /\ params' = p
       /\ IF Has(p.notary) /\ ~Has(p.notaryPublicKey)
            THEN /\ Throw([message |->
                            <<"Missing required parameter: notaryPublicKey">>])
                 /\ UNCHANGED <<payments, transfers>>
            ELSE IF buildThrows(payments)
            THEN /\ Throw(TypeError("account"))
                 /\ payments' = halfBuilt(payments)
                 /\ UNCHANGED transfers
            ELSE IF memoThrows(payments, p)
            THEN /\ Throw(TypeError("memo"))
                 /\ transfers' =
                      paymentsToTransfers(payments, Val(p.sourceAccount), 0)
                 /\ payments' = aliased(payments, transfers')
            ELSE /\ transfers' = buildChain(payments, p)
                 /\ payments' = aliased(payments, transfers')
                 /\ pc' = "receipt"
                 /\ UNCHANGED outcome
  /\ UNCHANGED <<entry, quote, idx, clock, now, receiptCondition, caseID,
                 stateBody, requests, proposed, settled>>

\* the receipt condition: the caller's, or the Condition Provider's
Receipt ==
  /\ pc = "receipt"
  /\ receiptCondition' =
        IF Has(params.receiptCondition)
          THEN params.receiptCondition
          ELSE Some(getReceiptCondition(transfers[Len(transfers)],
                      IF isAtomic THEN "prepared" ELSE "executed"))
  /\ pc' = "now"
  /\ UNCHANGED <<entry, params, quote, payments, transfers, idx, clock, now,
                 caseID, stateBody, requests, outcome, proposed, settled>>

\* ReadClock of a run that configures its transfers without a case
ReadClockSkipsCase ==
  /\ pc = "now"
  /\ now' = Some(clock)
  /\ pc' = "setupTransfers"
  /\ caseID' = Some(FALSE)
  /\ UNCHANGED <<entry, params, quote, payments, transfers, idx, clock,
                 receiptCondition, stateBody, requests, outcome, proposed,
                 settled>>

\* const now = Date.now()
ReadClock ==
  /\ pc = "now"
  /\ now' = Some(clock)
  /\ IF isAtomic
       THEN pc' = "setupCase" /\ UNCHANGED caseID
       ELSE pc' = "setupTransfers" /\ caseID' = Some(FALSE)
  /\ UNCHANGED <<entry, params, quote, payments, transfers, idx, clock,
                 receiptCondition, stateBody, requests, outcome, proposed,
                 settled>>

\* caseRecord with the case expiring with the last transfer of the chain
caseRecordLastExpiry(id, p) ==
  [id |-> id,
   state |-> "proposed",
   execution_condition |-> p.receiptCondition,
   expires_at |-> transferExpiresAt(Val(now), p.transfers[Len(p.transfers)]),
   notaries |-> <<[url |-> p.notary]>>,
   transfers |-> [i \in DOMAIN p.transfers |-> Val(p.transfers[i].id)]]

\* the case record setupCase sends
caseRecord(id, p) ==
  [id |-> id,
   state |-> "proposed",
   execution_condition |-> p.receiptCondition,
   expires_at |-> p.expiresAt,
   notaries |-> <<[url |-> p.notary]>>,
   transfers |-> [i \in DOMAIN p.transfers |-> Val(p.transfers[i].id)]]

\* caseFailed with 400 itself let through
caseFailedAbove(res) == res.status > ErrorStatus

\* if (caseRes.statusCode >= 400)
caseFailed(res) == res.status >= ErrorStatus

\* setupCase: the case is put to the notary
SetupCase ==
  /\ pc = "setupCase"
  /\ LET p == [notary |-> Val(params.notary),
               receiptCondition |-> Val(receiptCondition),
               transfers |-> transfers,
               expiresAt |-> transferExpiresAt(Val(now), transfers[1])]
         id == <<p.notary, "cases",
                 encodeURIComponent(uuid(Len(transfers) + 1))>>
     IN \E res \in Responses :
          /\ requests' = Append(requests,
                Request("createCase", id, Absent, caseRecord(id, p), res))
          /\ IF caseFailed(res)
               THEN /\ Throw(RemoteError("Notary error", res.status, res.body))
                    /\ UNCHANGED caseID
               ELSE /\ caseID' = Some(id)
                    /\ pc' = "setupTransfers"
                    /\ UNCHANGED outcome
  /\ UNCHANGED <<entry, params, quote, payments, transfers, idx, clock, now,
                 receiptCondition, stateBody, proposed, settled>>

\* const conditionParams = {receiptCondition, caseID, notary, notaryPublicKey}
conditionParams ==
  [receiptCondition |-> Val(receiptCondition),
   caseID |-> Val(caseID),
   notary |-> params.notary,
   notaryPublicKey |-> params.notaryPublicKey]

executionCondition == getExecutionCondition(conditionParams)

cancellationCondition ==
  IF isAtomic THEN getCancellationCondition(conditionParams) ELSE FALSE

\* the conditions are derived and setupTransfers configures the chain
SetupTransfers ==
  /\ pc = "setupTransfers"
  /\ transfers' = setupTransfers(transfers,
                     [isAtomic |-> isAtomic,
                      now |-> Val(now),
                      caseID |-> Val(caseID),
                      executionCondition |-> executionCondition,
                      cancellationCondition |-> cancellationCondition])
  /\ payments' = aliased(payments, transfers')
  /\ pc' = "postTransfers"
  /\ idx' = 1
  /\ UNCHANGED <<entry, params, quote, clock, now, receiptCondition, caseID,
                 stateBody, requests, outcome, proposed, settled>>

\* what the entry point resolves with: executePayment returns subpayments,
\* sendPayment awaits executePayment and returns nothing
Return(ps) ==
  /\ pc' = "done"
  /\ outcome' = Resolved(IF entry = "executePayment" THEN Some(ps) ELSE Absent)

\* transferAuth with the credentials sent along with every transfer
transferAuthAlways(i, p) ==
  Some([username |-> p.sourceUsername, password |-> p.sourcePassword])

\* the auth postTransfers hands to postTransfer for the i-th transfer: the
\* source credentials for the first, none for the others
transferAuth(i, p) ==
  IF i = 1
    THEN Some([username |-> p.sourceUsername, password |-> p.sourcePassword])
    ELSE Absent

\* moreTransfers of a loop that stops one transfer early
moreTransfersButLast(i, ts) == i < Len(ts) - 1

\* the loop of postTransfers has transfers left after the i-th
moreTransfers(i, ts) == i < Len(ts)

\* postTransfer for transfers[idx]: the first transfer is put with the
\* source credentials, the others without
PostTransfer ==
  /\ pc = "postTransfers"
  /\ LET transfer == transfers[idx]
         auth == transferAuth(idx, params)
     IN \E res \in Responses :
          /\ requests' = Append(requests,
                Request("proposal", Val(transfer.id), auth, transfer, res))
          /\ IF res.status >= ErrorStatus
               THEN /\ Throw(RemoteError("Remote error", res.status, res.body))
                    /\ UNCHANGED <<transfers, payments, proposed, idx>>
               ELSE /\ transfers' = [transfers EXCEPT
                                       ![idx].state = Some("proposed")]
                    /\ payments' = aliased(payments, transfers')
                    /\ proposed' = proposed \cup {Val(transfer.id)}
                    /\ IF moreTransfers(idx, transfers)
                         THEN idx' = idx + 1 /\ pc' = "postTransfers"
                         ELSE idx' = 1 /\ pc' = "postPayments"
                    /\ UNCHANGED outcome
  /\ UNCHANGED <<entry, params, quote, clock, now, receiptCondition, caseID,
                 stateBody, settled>>

\* hopPayment with the payment's own source transfer kept
hopPaymentKeepsSource(ps, ts, i) ==
  [ps[i] EXCEPT !.destination_transfers = <<ts[i + 1]>>]

\* the payment postPayments submits for hop i
hopPayment(ps, ts, i) ==
  [ps[i] EXCEPT !.source_transfers = <<ts[i]>>,
                !.destination_transfers = <<ts[i + 1]>>]

\* the destination transfer in the body of the response to a payment
settledTransfer(payment) ==
  [payment.destination_transfers[1] EXCEPT !.state = Some("executed")]

\* postsFulfillment of a run that ignores the caller's receiptCondition
postsFulfillmentAlways(atomic, p) == atomic

\* if (isAtomic && !params.receiptCondition): the run posts the fulfillment
postsFulfillment(atomic, p) == atomic /\ ~Has(p.receiptCondition)

\* paymentFailed with 400 itself let through
paymentFailedAbove(res) == res.status > ErrorStatus

\* if (paymentRes.status >= 400)
paymentFailed(res) == res.status >= ErrorStatus

\* postPayment for payments[idx]; after the last one executePayment goes on
\* to the fulfillment or returns
PostPayment ==
  /\ pc = "postPayments"
  /\ LET payment == hopPayment(payments, transfers, idx)
     IN \E res \in Responses :
          /\ payments' = [payments EXCEPT ![idx] = payment]
          /\ requests' = Append(requests,
                Request("settlement", payment.id, Absent, payment, res))
          /\ IF paymentFailed(res)
               THEN /\ Throw(RemoteError("Remote error", res.status, res.body))
                    /\ UNCHANGED <<transfers, settled, idx>>
               ELSE /\ transfers' = [transfers EXCEPT
                                       ![idx + 1] = settledTransfer(payment)]
                    /\ settled' = settled \cup {payment.id}
                    /\ IF idx < Len(payments)
                         THEN /\ idx' = idx + 1
                              /\ pc' = "postPayments"
                              /\ UNCHANGED outcome
                         ELSE /\ idx' = idx
                              /\ IF postsFulfillment(isAtomic, params)
                                   THEN pc' = "fetchState" /\ UNCHANGED outcome
                                   ELSE Return(payments')
  /\ UNCHANGED <<entry, params, quote, clock, now, receiptCondition, caseID,
                 stateBody, proposed>>

\* postFulfillmentToNotary, first half: the state of the final transfer is
\* fetched from its ledger
FetchState ==
  /\ pc = "fetchState"
  /\ LET finalTransfer == transfers[Len(transfers)]
     IN \E res \in Responses :
          /\ requests' = Append(requests,
                Request("fetchState", <<Val(finalTransfer.id), "state">>,
                        Absent, Absent, res))
          /\ IF res.status >= ErrorStatus
               THEN /\ Throw(RemoteError("Remote error", res.status, res.body))
                    /\ UNCHANGED stateBody
               ELSE /\ stateBody' = Some([type |-> "ed25519-sha512",
                                          signature |-> "sig"])
                    /\ pc' = "fulfill"
                    /\ UNCHANGED outcome
  /\ UNCHANGED <<entry, params, quote, payments, transfers, idx, clock, now,
                 receiptCondition, caseID, proposed, settled>>

\* notaryFulfillmentRes >= 400 compares the response object itself with
\* 400: the object converts to NaN, and the comparison is false
responseAtLeast(res, n) == FALSE

\* postFulfillmentToNotary, second half: the fulfillment is put to the
\* notary, and executePayment returns
PutFulfillment ==
  /\ pc = "fulfill"
  /\ \E res \in Responses :
       /\ requests' = Append(requests,
             Request("fulfillment", <<Val(caseID), "fulfillment">>, Absent,
                     [type |-> Val(stateBody).type,
                      signature |-> Val(stateBody).signature],
                     res))
       /\ IF responseAtLeast(res, ErrorStatus)
            THEN Throw(RemoteError("Remote error", res.status, res.body))
            ELSE Return(payments)
  /\ UNCHANGED <<entry, params, quote, payments, transfers, idx, clock, now,
                 receiptCondition, caseID, stateBody, proposed, settled>>

Next ==
  \/ Tick
  \/ SendPayment
  \/ FindPath
  \/ CallExecutePayment
  \/ ExecutePayment
  \/ Receipt
  \/ ReadClock
  \/ SetupCase
  \/ SetupTransfers
  \/ PostTransfer
  \/ PostPayment
  \/ FetchState
  \/ PutFulfillment

Spec == Init /\ [][Next]_vars

\* ================================================================ claims
\* the positions in the log of the requests of a kind
Issued(kind) == {i \in DOMAIN requests : requests[i].kind = kind}
Succeeded(i) == requests[i].status < ErrorStatus
Finished == pc \in {"done", "failed"}

\* C1: in an atomic run the case is created at the notary, and the notary
\* has accepted it, before the first transfer is proposed, and every
\* transfer that is proposed carries additional_info.cases = [that case id]
C1_CaseBeforeProposals ==
  isAtomic =>
    \A i \in Issued("proposal") :
      /\ Cardinality(Issued("createCase")) = 1
      /\ \A j \in Issued("createCase") :
           /\ j < i
           /\ Succeeded(j)
           /\ Has(requests[i].body.additional_info)
           /\ Val(requests[i].body.additional_info).cases
                = Some(<<requests[j].url>>)

C1_Witness ==
  /\ isAtomic
  /\ pc = "done"
  /\ Cardinality(Issued("proposal")) = 3

\* C2: with notary set and notaryPublicKey missing, a run of either entry
\* point issues no request at all, and fails with the configuration error
C2_MissingKeyNoRequest ==
  (Has(params.notary) /\ ~Has(params.notaryPublicKey)) =>
    /\ requests = <<>>
    /\ pc # "done"
    /\ pc = "failed" =>
         outcome = Rejected([message |->
                     <<"Missing required parameter: notaryPublicKey">>])

\* the quoted transfer that chain transfer i is built from
QuotedChain(i) ==
  IF i <= Len(quote) THEN quote[i].source_transfers[1]
  ELSE quote[Len(quote)].destination_transfers[1]

\* C3 as stated: the debits of chain transfer i > 0 are the credits of the
\* quoted destination transfer of the previous hop
C3_DebitsArePreviousCredits ==
  pc = "receipt" =>
    \A i \in 2..Len(quote) :
      transfers[i].debits = quote[i - 1].destination_transfers[1].credits

\* C3, amended: the debits of chain transfer i > 0 are the debits of the
\* quoted destination transfer of the previous hop
C3_DebitsArePreviousDebits ==
  pc = "receipt" =>
    \A i \in 2..Len(quote) :
      transfers[i].debits = quote[i - 1].destination_transfers[1].debits

C3_Witness ==
  /\ pc = "receipt"
  /\ Len(quote) >= 2
  /\ transfers[2].debits # QuotedChain(2).debits

\* the chain is configured and not yet handed to postPayments
Configured == pc = "postTransfers"

\* C4 as stated: in atomic mode, after setupTransfers all transfers carry
\* the run's execution_condition and cancellation_condition and
\* additional_info.cases = [caseID], and none carries expires_at
C4_AtomicEscrow ==
  (isAtomic /\ Configured) =>
    \A i \in DOMAIN transfers :
      /\ transfers[i].execution_condition = Some(executionCondition)
      /\ transfers[i].cancellation_condition = Some(cancellationCondition)
      /\ Val(transfers[i].additional_info).cases = Some(<<Val(caseID)>>)
      /\ ~Has(transfers[i].expires_at)

\* C5: in non-atomic mode, after setupTransfers every transfer but the last
\* carries the run's execution_condition and the last carries none
C5_NonAtomicConditions ==
  (~isAtomic /\ Configured) =>
    /\ \A i \in 1..(Len(transfers) - 1) :
         transfers[i].execution_condition = Some(executionCondition)
    /\ ~Has(transfers[Len(transfers)].execution_condition)

C5_Witness ==
  /\ ~isAtomic
  /\ Configured
  /\ Len(transfers) = 3
  /\ Has(transfers[2].execution_condition)

\* C6: in non-atomic mode, after setupTransfers every transfer expires at
\* the one now of the run plus its own quoted expiry_duration, and no
\* transfer references a case
C6_NonAtomicExpiry ==
  (~isAtomic /\ Configured) =>
    \A i \in DOMAIN transfers :
      /\ transfers[i].expires_at =
           Some(toISOString(Val(now)
                  + Val(QuotedChain(i).expiry_duration) * MsPerSecond))
      /\ ~Has(Val(transfers[i].additional_info).cases)

\* two transfers of one chain with different durations, configured after
\* the clock has moved on from now
C6_Witness ==
  /\ ~isAtomic
  /\ Configured
  /\ clock > Val(now)
  /\ \E i, j \in DOMAIN transfers :
       QuotedChain(i).expiry_duration # QuotedChain(j).expiry_duration

\* the quoted debits that the debits of chain transfer i are
QuotedDebits(i) ==
  IF i = 1 \/ i = Len(quote) + 1 THEN QuotedChain(i).debits
  ELSE quote[i - 1].destination_transfers[1].debits

\* C7: in both modes, after setupTransfers the first debit of the first
\* transfer is authorized, and every other debit of the chain has the
\* authorized flag it was quoted with
C7_OnlyFirstDebitAuthorized ==
  Configured =>
    /\ transfers[1].debits[1].authorized = Some(TRUE)
    /\ \A i \in DOMAIN transfers : \A j \in DOMAIN transfers[i].debits :
         (i # 1 \/ j # 1) =>
           transfers[i].debits[j].authorized = QuotedDebits(i)[j].authorized

C7_Witness ==
  /\ Configured
  /\ Len(transfers) = 3
  /\ Len(transfers[1].debits) = 2
  /\ transfers[1].debits[1].authorized = Some(TRUE)
  /\ transfers[1].debits[2].authorized = Some(FALSE)

\* C8: when the proposal of transfer k gets a status of at least 400, the
\* run is rejected with the remote error made of that status and body, the
\* transfers before k are registered at their ledgers, and the failed
\* proposal is the last request of the run: nothing was settled, fulfilled
\* or rolled back
C8_RejectedProposalStopsRun ==
  \A k \in Issued("proposal") :
    ~Succeeded(k) =>
      /\ pc = "failed"
      /\ outcome.state = "rejected"
      /\ Val(outcome.error).message
           = <<"Remote error", requests[k].status, requests[k].response>>
      /\ k = Len(requests)
      /\ \A j \in 1..(k - 1) :
           requests[j].kind \in {"findPath", "createCase", "proposal"}
      /\ requests[k].url = Val(transfers[idx].id)
      /\ proposed = {Val(transfers[i].id) : i \in 1..(idx - 1)}
      /\ \A i \in 1..(idx - 1) : transfers[i].state = Some("proposed")
      /\ settled = {}

C8_Witness ==
  /\ pc = "failed"
  /\ Cardinality(proposed) = 2
  /\ \E k \in Issued("proposal") : requests[k].status = 402

\* every hop of the quoted path was settled
HopsSettled == settled = {quote[i].id : i \in DOMAIN quote}
FetchSucceeded == \E i \in Issued("fetchState") : Succeeded(i)

\* C9 as stated: the fulfillment is put to the notary if and only if the
\* run is atomic, the caller gave no receiptCondition and every hop was
\* settled; it comes after every settlement; a non-atomic run sends the
\* notary nothing
C9_FulfillmentIffSettled ==
  /\ Finished =>
       (Issued("fulfillment") # {}
          <=> (isAtomic /\ ~Has(params.receiptCondition) /\ HopsSettled))
  /\ \A f \in Issued("fulfillment") : \A h \in Issued("settlement") :
       h < f /\ Succeeded(h)
  /\ ~isAtomic =>
       Issued("createCase") \cup Issued("fulfillment") = {}

\* C9, amended: ... and every hop was settled and the state of the final
\* transfer was fetched with a status below 400
C9_FulfillmentIffSettledAndFetched ==
  /\ Finished =>
       (Issued("fulfillment") # {}
          <=> (/\ isAtomic
               /\ ~Has(params.receiptCondition)
               /\ HopsSettled
               /\ FetchSucceeded))
  /\ \A f \in Issued("fulfillment") : \A h \in Issued("settlement") :
       h < f /\ Succeeded(h)
  /\ ~isAtomic =>
       Issued("createCase") \cup Issued("fulfillment") = {}

C9_Witness ==
  /\ pc = "done"
  /\ Cardinality(Issued("settlement")) = 2
  /\ Issued("fulfillment") = {Len(requests)}

\* C10: a status of at least 400 in answer to the fetch of the final
\* transfer's state or to the fulfillment rejects the run with the remote
\* error of that status and body
C10_FulfillmentFailureRejects ==
  \A i \in Issued("fetchState") \cup Issued("fulfillment") :
    ~Succeeded(i) =>
      /\ pc = "failed"
      /\ outcome.state = "rejected"
      /\ Val(outcome.error).message
           = <<"Remote error", requests[i].status, requests[i].response>>

\* C11: when the settlement of hop i gets a status of at least 400, the
\* run is rejected with the remote error of that status and body, the hops
\* before i are settled, and the failed settlement is the last request of
\* the run: no later hop, no fulfillment, no compensating request
C11_RejectedSettlementStopsRun ==
  \A k \in Issued("settlement") :
    ~Succeeded(k) =>
      /\ pc = "failed"
      /\ outcome.state = "rejected"
      /\ Val(outcome.error).message
           = <<"Remote error", requests[k].status, requests[k].response>>
      /\ k = Len(requests)
      /\ requests[k].url = quote[idx].id
      /\ Cardinality(Issued("settlement")) = idx
      /\ settled = {quote[i].id : i \in 1..(idx - 1)}
      /\ \A j \in 1..(k - 1) :
           /\ Succeeded(j)
           /\ requests[j].kind
                \in {"findPath", "createCase", "proposal", "settlement"}

C11_Witness ==
  /\ pc = "failed"
  /\ Cardinality(settled) = 1
  /\ \E k \in Issued("settlement") : requests[k].status = 400

\* C12: a finished run has either resolved with the full list of
\* subpayments, one per quoted hop, every step having succeeded, or was
\* rejected with the error of its first failing step
C12_SubpaymentsOrError ==
  Finished =>
    \/ /\ outcome.state = "resolved"
       /\ outcome.value = Some(payments)
       /\ Len(payments) = Len(quote)
       /\ HopsSettled
       /\ \A j \in DOMAIN requests : Succeeded(j)
    \/ /\ outcome.state = "rejected"
       /\ Has(outcome.error)
       /\ \A j \in 1..(Len(requests) - 1) : Succeeded(j)

\* a quoted transfer lacks its ledger, its debits or its credits
LacksField(transfer) ==
  \/ ~Has(transfer.ledger)
  \/ Len(transfer.debits) = 0
  \/ Len(transfer.credits) = 0

MalformedQuote ==
  \E i \in DOMAIN quote :
    \/ LacksField(quote[i].source_transfers[1])
    \/ LacksField(quote[i].destination_transfers[1])

\* C13: a quote with a hop that lacks a required field never gets past the
\* Chain Builder, which fails with a MalformedQuoteError: no transfer of it
\* is registered in a case or proposed to a ledger
C13_MalformedQuoteRejected ==
  MalformedQuote =>
    /\ pc \in {"start", "findPath", "executePayment", "failed"}
    /\ Issued("createCase") \cup Issued("proposal") = {}
    /\ (pc = "failed" /\ \A j \in DOMAIN requests : Succeeded(j)
          /\ ~(Has(params.notary) /\ ~Has(params.notaryPublicKey)))
         => Val(outcome.error).message[1] = "MalformedQuoteError"

\* the payment that chain transfer i belongs to
OwningHop(i) == IF i <= Len(quote) THEN i ELSE Len(quote)

\* C14: the chain built from n hops has n + 1 transfers, the source
\* transfer of every hop in order and then the destination transfer of the
\* last hop, each tagged with the id of its payment, and no two with the
\* same id
C14_ChainShape ==
  pc = "receipt" =>
    /\ Len(transfers) = Len(quote) + 1
    /\ \A i \in DOMAIN transfers :
         /\ transfers[i].ledger = QuotedChain(i).ledger
         /\ transfers[i].expiry_duration = QuotedChain(i).expiry_duration
         /\ Len(transfers[i].credits) = Len(QuotedChain(i).credits)
         /\ \A j \in DOMAIN transfers[i].credits :
              transfers[i].credits[j].account
                = QuotedChain(i).credits[j].account
         /\ Has(transfers[i].id)
         /\ Val(transfers[i].additional_info).part_of_payment
              = quote[OwningHop(i)].id
    /\ \A i, j \in DOMAIN transfers :
         i # j => transfers[i].id # transfers[j].id

C14_Witness ==
  /\ pc = "receipt"
  /\ Len(quote) = 2
  /\ Len(transfers) = 3
  /\ Val(transfers[3].additional_info).part_of_payment = quote[2].id

\* the requests that carry credentials
Authenticated == {j \in DOMAIN requests : Has(requests[j].auth)}

\* C15: of the requests of a run only the proposal of the first transfer
\* of the chain carries the caller's source credentials
C15_OnlyFirstProposalAuthenticated ==
  /\ \A j \in DOMAIN requests :
       Has(requests[j].auth) <=>
         (requests[j].kind = "proposal"
            /\ requests[j].url = Val(transfers[1].id))
  /\ \A j \in Authenticated :
       Val(requests[j].auth) = [username |-> params.sourceUsername,
                                password |-> params.sourcePassword]
  /\ Cardinality(Authenticated) =
       (IF Issued("proposal") = {} THEN 0 ELSE 1)

C15_Witness ==
  /\ pc = "done"
  /\ isAtomic
  /\ Cardinality(Issued("proposal")) = 3
  /\ Issued("fulfillment") # {}
  /\ Cardinality(Authenticated) = 1

\* C16: when the notary answers the creation of the case with a status of
\* at least 400, the run is rejected with the notary error of that status
\* and body; no transfer gets a case, none is proposed, no payment is
\* settled, and no request follows
C16_RejectedCaseStopsRun ==
  \A k \in Issued("createCase") :
    ~Succeeded(k) =>
      /\ pc = "failed"
      /\ outcome.state = "rejected"
      /\ Val(outcome.error).message
           = <<"Notary error", requests[k].status, requests[k].response>>
      /\ k = Len(requests)
      /\ ~Has(caseID)
      /\ \A i \in DOMAIN transfers :
           /\ ~Has(Val(transfers[i].additional_info).cases)
           /\ ~Has(transfers[i].execution_condition)
      /\ proposed = {}
      /\ settled = {}

C16_Witness ==
  /\ pc = "failed"
  /\ Len(transfers) = 3
  /\ \E k \in Issued("createCase") : requests[k].status = 400

\* the phase a request belongs to
Phase(kind) ==
  CASE kind = "findPath" -> 0
    [] kind = "createCase" -> 1
    [] kind = "proposal" -> 2
    [] kind = "settlement" -> 3
    [] kind = "fetchState" -> 4
    [] kind = "fulfillment" -> 5

\* a transfer carries what the Escrow Configurator gives it
Escrowed(transfer) ==
  \/ Has(transfer.execution_condition)
  \/ Has(transfer.cancellation_condition)
  \/ (Has(transfer.additional_info)
        /\ Has(Val(transfer.additional_info).cases))

\* build, then propose, then settle, then fulfill, each phase only after
\* the one before it is finished
PhasesInOrder ==
  /\ \A j \in 1..(Len(requests) - 1) :
       /\ Succeeded(j)
       /\ Phase(requests[j].kind) <= Phase(requests[j + 1].kind)
  /\ \A k \in Issued("createCase") :
       /\ Len(requests[k].body.transfers) = Len(quote) + 1
       /\ \A i \in DOMAIN transfers :
            requests[k].body.transfers[i] = Val(transfers[i].id)
  /\ \A k \in Issued("proposal") :
       /\ Len(transfers) = Len(quote) + 1
       /\ ~Has(requests[k].body.expiry_duration)
       /\ requests[k].url # Val(transfers[Len(transfers)].id)
            => Has(requests[k].body.execution_condition)
  /\ Issued("settlement") # {} =>
       /\ Cardinality(Issued("proposal")) = Len(transfers)
       /\ \A k \in Issued("proposal") : Succeeded(k)
  /\ Issued("fetchState") # {} =>
       /\ Cardinality(Issued("settlement")) = Len(quote)
       /\ \A k \in Issued("settlement") : Succeeded(k)

\* C17 as stated: the phases come in order, and in atomic mode the
\* transfers are configured by the time the case is registered
C17_ConfiguredBeforeCase ==
  /\ PhasesInOrder
  /\ isAtomic =>
       \A k \in Issued("createCase") :
         \A i \in DOMAIN transfers : Escrowed(transfers[i])

\* C17, amended: the phases come in order, and in atomic mode the case is
\* registered, and accepted, before any transfer is configured
C17_CaseBeforeConfigured ==
  /\ PhasesInOrder
  /\ isAtomic =>
       /\ (\E i \in DOMAIN transfers : Escrowed(transfers[i]))
            => \E k \in Issued("createCase") : Succeeded(k)
       /\ pc \in {"receipt", "now", "setupCase", "setupTransfers"}
            => \A i \in DOMAIN transfers : ~Escrowed(transfers[i])

C17_Witness ==
  /\ isAtomic
  /\ pc = "setupTransfers"
  /\ \E k \in Issued("createCase") : Succeeded(k)
  /\ \A i \in DOMAIN transfers : ~Escrowed(transfers[i])

\* the proposals and settlements of the run, in the order they were sent
IsLedgerWrite(r) == r.kind \in {"proposal", "settlement"}
LedgerWrites == SelectSeq(requests, IsLedgerWrite)

\* C18: the proposals and settlements a run sends are a prefix of: the
\* proposal of chain transfer 1, ..., n+1, then the settlement of hop
\* 1, ..., n; every one but the last of them was answered with success, so
\* nothing is retried, reordered or settled before all n+1 proposals
\* succeeded; the state of the final transfer is read from its ledger only
\* after the whole sequence succeeded
C18_LedgerRequestsInChainOrder ==
  LET log == LedgerWrites
      n == Len(quote)
  IN /\ Len(log) <= 2 * n + 1
     /\ \A j \in DOMAIN log :
          IF j <= n + 1
            THEN /\ log[j].kind = "proposal"
                 /\ log[j].url = Val(transfers[j].id)
                 /\ \A k \in 1..(j - 1) : log[k].url # log[j].url
            ELSE /\ log[j].kind = "settlement"
                 /\ log[j].url = quote[j - n - 1].id
                 /\ \A k \in (n + 2)..(j - 1) : log[k].url # log[j].url
     /\ \A j \in 1..(Len(log) - 1) : log[j].status < ErrorStatus
     /\ \A k \in Issued("fetchState") :
          /\ Len(log) = 2 * n + 1
          /\ log[Len(log)].status < ErrorStatus
          /\ \A j \in Issued("proposal") \cup Issued("settlement") : j < k

C18_Witness ==
  /\ pc = "done"
  /\ Len(quote) = MaxHops
  /\ Len(LedgerWrites) = 2 * Len(quote) + 1
  /\ LedgerWrites[Len(LedgerWrites)].kind = "settlement"

\* the number of the hop that the k-th request settles
HopOf(k) == Cardinality({j \in Issued("settlement") : j <= k})
\* the request that settles hop i
SettlementOf(i) == CHOOSE k \in Issued("settlement") : HopOf(k) = i

\* C19: hop i is settled with source_transfers = [chain[i]] and
\* destination_transfers = [chain[i+1]], and chain[i+1] becomes the
\* destination transfer the ledger returns: from the second hop on the
\* source transfer is the one the previous hop's ledger returned, not the
\* locally built one, and the transfer whose state is fetched is the one
\* the last hop's ledger returned
C19_SettlementUsesReturnedTransfers ==
  /\ \A k \in Issued("settlement") :
       LET i == HopOf(k)
           sent == requests[k].body
       IN /\ sent.id = quote[i].id
          /\ Len(sent.source_transfers) = 1
          /\ Len(sent.destination_transfers) = 1
          /\ sent.source_transfers[1] = transfers[i]
          /\ sent.destination_transfers[1].state = Some("proposed")
          /\ IF i = 1
               THEN sent.source_transfers[1].state = Some("proposed")
               ELSE LET returned == settledTransfer(
                                      requests[SettlementOf(i - 1)].body)
                    IN /\ sent.source_transfers[1] = returned
                       /\ returned.state = Some("executed")
          /\ IF Succeeded(k)
               THEN transfers[i + 1] = settledTransfer(sent)
               ELSE transfers[i + 1] = sent.destination_transfers[1]
  /\ \A k \in Issued("fetchState") :
       LET returned == settledTransfer(requests[SettlementOf(Len(quote))].body)
       IN /\ requests[k].url = <<Val(returned.id), "state">>
          /\ transfers[Len(transfers)] = returned

C19_Witness ==
  /\ Len(quote) = MaxHops
  /\ Cardinality(Issued("settlement")) = Len(quote)
  /\ Issued("fetchState") # {}
  /\ requests[SettlementOf(2)].body.source_transfers[1].state
       = Some("executed")

\* C20: the case record of an atomic run lists the ids of all n+1 chain
\* transfers in chain order and expires at the shared now plus the quoted
\* expiry_duration of the first transfer; the i-th transfer proposed has
\* the i-th id of the case, as its address and in its body, and by then
\* its expiry_duration is gone
C20_CaseCoversChain ==
  /\ isAtomic => (Issued("proposal") # {} => Issued("createCase") # {})
  /\ \A k \in Issued("createCase") :
       LET case == requests[k].body
       IN /\ isAtomic
          /\ Len(case.transfers) = Len(quote) + 1
          /\ \A i \in DOMAIN transfers :
               case.transfers[i] = Val(transfers[i].id)
          /\ \A i, j \in DOMAIN case.transfers :
               i # j => case.transfers[i] # case.transfers[j]
          /\ case.expires_at =
               toISOString(Val(now)
                 + Val(QuotedChain(1).expiry_duration) * MsPerSecond)
          /\ \A j \in Issued("proposal") :
               LET i == Cardinality({m \in Issued("proposal") : m <= j})
               IN /\ k < j
                  /\ requests[j].url = case.transfers[i]
                  /\ requests[j].body.id = Some(case.transfers[i])
                  /\ ~Has(requests[j].body.expiry_duration)

C20_Witness ==
  /\ isAtomic
  /\ Len(quote) = MaxHops
  /\ Cardinality(Issued("proposal")) = Len(quote) + 1
  /\ QuotedChain(1).expiry_duration
       # QuotedChain(Len(quote) + 1).expiry_duration
  /\ \E k \in Issued("createCase") :
       Len(requests[k].body.transfers) = Len(quote) + 1

====
